---- MODULE Spec2Model ----
(***************************************************************************)
(* Model of src/relative.rs: the relative-context adjuncts                 *)
(* (RelativeColor, RelativeSourceRectangle, RelativeTransform,             *)
(* RelativeViewTransform).  Every method is a pure function from a context *)
(* value to a new context value; a behaviour of the model is a call chain  *)
(* c.op1(..).op2(..)... in which each step applies one method to the       *)
(* result of the previous one.                                             *)
(*                                                                         *)
(* Matrix2d is [[f64; 3]; 2].  Matrix entries are modelled by integers,    *)
(* on which f64 arithmetic is exact in the ranges the bounds allow.        *)
(* Angles in radians are counted in quarter turns (units of pi/2), so that *)
(* sine and cosine are exact.  ColorComponent is f32: a color channel is a *)
(* NaN, an infinity, or a signed dyadic rational s * m * 2^e, on which f32 *)
(* arithmetic is exact in the ranges the bounds allow.  Source rectangles  *)
(* hold i32 at full width; an overflowing + or unary - panics in a build   *)
(* with overflow checks and wraps in a build without.                      *)
(***************************************************************************)
EXTENDS Integers, Sequences, FiniteSets, TLC

VARIABLES
    ctx,              \* the context value the chain has produced so far
    start,            \* the context value the chain started from
    trace,            \* the completed calls: method, receiver, result
    panic,            \* <<>>, or the call that panicked and its receiver
    overflow_checks   \* whether the build checks integer overflow

vars == <<ctx, start, trace, panic, overflow_checks>>

\* Longest call chain explored.
MaxCalls == 3

(***************************************************************************)
(* vecmath primitives                                                      *)
(***************************************************************************)
identity == <<<<1, 0, 0>>, <<0, 1, 0>>>>

multiply(a, b) ==
    << << a[1][1] * b[1][1] + a[1][2] * b[2][1],
          a[1][1] * b[1][2] + a[1][2] * b[2][2],
          a[1][1] * b[1][3] + a[1][2] * b[2][3] + a[1][3] >>,
       << a[2][1] * b[1][1] + a[2][2] * b[2][1],
          a[2][1] * b[1][2] + a[2][2] * b[2][2],
          a[2][1] * b[1][3] + a[2][2] * b[2][3] + a[2][3] >> >>

translate(v) == <<<<1, 0, v[1]>>, <<0, 1, v[2]>>>>

\* cosine and sine of q quarter turns
cos_q(q) == CASE q % 4 = 0 -> 1 [] q % 4 = 1 -> 0 [] q % 4 = 2 -> -1 [] OTHER -> 0
sin_q(q) == CASE q % 4 = 0 -> 0 [] q % 4 = 1 -> 1 [] q % 4 = 2 -> 0 [] OTHER -> -1

rotate_radians(q) ==
    <<<<cos_q(q), -sin_q(q), 0>>, <<sin_q(q), cos_q(q), 0>>>>

Abs(n) == IF n < 0 THEN -n ELSE n

\* square root, exact on the perfect squares the model uses
sqrt(n) == CHOOSE r \in 0..n : r * r = n

vecmath_orient(x, y) ==
    LET len2 == x * x + y * y
    IN  IF len2 = 0 THEN identity
        ELSE LET len == sqrt(len2)
                 c == x \div len
                 s == y \div len
             IN  <<<<c, -s, 0>>, <<s, c, 0>>>>

vecmath_scale(sx, sy) == <<<<sx, 0, 0>>, <<0, sy, 0>>>>

vecmath_shear(v) == <<<<1, v[1], 0>>, <<v[2], 1, 0>>>>

\* the image of point p under the affine map m
transform_pos(m, p) ==
    << m[1][1] * p[1] + m[1][2] * p[2] + m[1][3],
       m[2][1] * p[1] + m[2][2] * p[2] + m[2][3] >>

(***************************************************************************)
(* f32 arithmetic on color channels                                        *)
(***************************************************************************)
NaN == [k |-> "nan", s |-> 1, m |-> 0, e |-> 0]

Inf(s) == [k |-> "inf", s |-> s, m |-> 0, e |-> 0]

\* s * m * 2^e, with m odd, or m = 0 and e = 0 (a signed zero)
Fin(s, m, e) == [k |-> "fin", s |-> s, m |-> m, e |-> e]

IsZero(a) == a.k = "fin" /\ a.m = 0

IsFinite(a) == a.k = "fin"

RECURSIVE normalize(_, _)
normalize(n, e) == IF n % 2 = 0 THEN normalize(n \div 2, e + 1) ELSE <<n, e>>

\* a * b
f_mul(a, b) ==
    IF a.k = "nan" \/ b.k = "nan" THEN NaN
    ELSE IF a.k = "inf" \/ b.k = "inf"
         THEN IF IsZero(a) \/ IsZero(b) THEN NaN ELSE Inf(a.s * b.s)
    ELSE IF a.m = 0 \/ b.m = 0 THEN Fin(a.s * b.s, 0, 0)
    ELSE Fin(a.s * b.s, a.m * b.m, a.e + b.e)

\* a - b
f_sub(a, b) ==
    IF a.k = "nan" \/ b.k = "nan" THEN NaN
    ELSE IF a.k = "inf"
         THEN IF b.k = "inf" /\ b.s = a.s THEN NaN ELSE a
    ELSE IF b.k = "inf" THEN Inf(-b.s)
    ELSE IF IsZero(a) /\ IsZero(b)
         THEN Fin(IF a.s = -1 /\ b.s = 1 THEN -1 ELSE 1, 0, 0)
    ELSE LET e0 == IF a.e < b.e THEN a.e ELSE b.e
             n  == a.s * a.m * 2^(a.e - e0) - b.s * b.m * 2^(b.e - e0)
         IN  IF n = 0 THEN Fin(1, 0, 0)
             ELSE LET r == normalize(Abs(n), e0)
                  IN  Fin(IF n < 0 THEN -1 ELSE 1, r[1], r[2])

\* a == b
f_eq(a, b) ==
    /\ a.k # "nan"
    /\ b.k # "nan"
    /\ (a = b \/ (IsZero(a) /\ IsZero(b)))

One == Fin(1, 1, 0)

Zero == Fin(1, 0, 0)

(***************************************************************************)
(* i32 arithmetic on source rectangles                                     *)
(***************************************************************************)
I32_MAX == 2147483647

I32_MIN == -I32_MAX - 1

add_overflows(a, b) ==
    \/ b > 0 /\ a > I32_MAX - b
    \/ b < 0 /\ a < I32_MIN - b

neg_overflows(a) == a = I32_MIN

\* a + b modulo 2^32, computed without leaving the i32 range
wrapping_add(a, b) ==
    IF b > 0 /\ a > I32_MAX - b THEN (a - I32_MAX - 1) + (b - I32_MAX - 1)
    ELSE IF b < 0 /\ a < I32_MIN - b THEN (a + I32_MAX + 1) + (b + I32_MAX + 1)
    ELSE a + b

\* -a modulo 2^32
wrapping_neg(a) == IF a = I32_MIN THEN I32_MIN ELSE -a

(***************************************************************************)
(* Context capabilities: HasColor/CanColor,                                *)
(* HasSourceRectangle/CanSourceRectangle, GetTransform/SetTransform,       *)
(* GetViewTransform/SetViewTransform, Clone.                               *)
(***************************************************************************)
get_color(c) == c.color
color(c, value) == [c EXCEPT !.color = value]
get_source_rectangle(c) == c.source_rectangle
source_rectangle(c, value) == [c EXCEPT !.source_rectangle = value]
get_transform(c) == c.transform
set_transform(c, mat) == [c EXCEPT !.transform = mat]
get_view_transform(c) == c.view_transform
set_view_transform(c, mat) == [c EXCEPT !.view_transform = mat]

(***************************************************************************)
(* RelativeColor                                                           *)
(***************************************************************************)
mul_rgba(c, r, g, b, a) ==
    LET col == get_color(c)
    IN  color(c, << f_mul(col[1], r), f_mul(col[2], g),
                    f_mul(col[3], b), f_mul(col[4], a) >>)

\* tint scaling the alpha channel as well
tint_with_alpha(c, f) == mul_rgba(c, f, f, f, f)

tint(c, f) == mul_rgba(c, f, f, f, One)

shade(c, f) ==
    LET f1 == f_sub(One, f)
    IN  mul_rgba(c, f1, f1, f1, One)

(***************************************************************************)
(* RelativeSourceRectangle                                                 *)
(***************************************************************************)
src_rect(c, x, y, w, h) == source_rectangle(c, <<x, y, w, h>>)

src_flip_h(c) ==
    LET source_rect == get_source_rectangle(c)
    IN  source_rectangle(c, << wrapping_add(source_rect[1], source_rect[3]),
                               source_rect[2],
                               wrapping_neg(source_rect[3]),
                               source_rect[4] >>)

src_flip_h_panics(c) ==
    LET source_rect == get_source_rectangle(c)
    IN  \/ add_overflows(source_rect[1], source_rect[3])
        \/ neg_overflows(source_rect[3])

src_flip_v(c) ==
    LET source_rect == get_source_rectangle(c)
    IN  source_rectangle(c, << source_rect[1],
                               wrapping_add(source_rect[2], source_rect[4]),
                               source_rect[3],
                               wrapping_neg(source_rect[4]) >>)

src_flip_v_panics(c) ==
    LET source_rect == get_source_rectangle(c)
    IN  \/ add_overflows(source_rect[2], source_rect[4])
        \/ neg_overflows(source_rect[4])

src_flip_hv(c) ==
    LET source_rect == get_source_rectangle(c)
    IN  source_rectangle(c, << wrapping_add(source_rect[1], source_rect[3]),
                               wrapping_add(source_rect[2], source_rect[4]),
                               wrapping_neg(source_rect[3]),
                               wrapping_neg(source_rect[4]) >>)

src_flip_hv_panics(c) ==
    LET source_rect == get_source_rectangle(c)
    IN  \/ add_overflows(source_rect[1], source_rect[3])
        \/ add_overflows(source_rect[2], source_rect[4])
        \/ neg_overflows(source_rect[3])
        \/ neg_overflows(source_rect[4])

(***************************************************************************)
(* RelativeTransform                                                       *)
(***************************************************************************)
\* append_transform with the operands of multiply exchanged
append_transform_swapped(c, transform) ==
    set_transform(c, multiply(transform, get_transform(c)))

append_transform(c, transform) ==
    set_transform(c, multiply(get_transform(c), transform))

\* prepend_transform with the operands of multiply exchanged
prepend_transform_swapped(c, transform) ==
    set_transform(c, multiply(get_transform(c), transform))

prepend_transform(c, transform) ==
    set_transform(c, multiply(transform, get_transform(c)))

\* trans multiplying the translation on the left
trans_prepended(c, x, y) ==
    set_transform(c, multiply(translate(<<x, y>>), get_transform(c)))

trans(c, x, y) ==
    set_transform(c, multiply(get_transform(c), translate(<<x, y>>)))

rot_rad(c, angle) ==
    set_transform(c, multiply(get_transform(c), rotate_radians(angle)))

\* angle * pi / 180, in quarter turns; exact for multiples of 90 degrees
deg_to_rad(angle) == angle \div 90

rot_deg(c, angle) == rot_rad(c, deg_to_rad(angle))

orient(c, x, y) ==
    set_transform(c, multiply(get_transform(c), vecmath_orient(x, y)))

scale(c, sx, sy) ==
    set_transform(c, multiply(get_transform(c), vecmath_scale(sx, sy)))

zoom(c, s) == scale(c, s, s)

flip_v(c) == scale(c, 1, -1)

flip_h(c) == scale(c, -1, 1)

flip_hv(c) == scale(c, -1, -1)

shear(c, v) ==
    set_transform(c, multiply(get_transform(c), vecmath_shear(v)))

(***************************************************************************)
(* RelativeViewTransform                                                   *)
(***************************************************************************)
\* view composing the view transform with the accumulated transform
view_composed(c) ==
    set_transform(c, multiply(get_view_transform(c), get_transform(c)))

view(c) == set_transform(c, get_view_transform(c))

\* reset going back to the view transform
reset_to_view(c) == set_transform(c, get_view_transform(c))

\* reset clearing the view transform as well
reset_both(c) == set_view_transform(set_transform(c, identity), identity)

reset(c) == set_transform(c, identity)

\* store_view copying in the wrong direction
store_view_reversed(c) == set_transform(c, get_view_transform(c))

\* store_view that also resets the current transform
store_view_and_reset(c) ==
    set_transform(set_view_transform(c, get_transform(c)), identity)

store_view(c) == set_view_transform(c, get_transform(c))

(***************************************************************************)
(* Inputs                                                                  *)
(***************************************************************************)
\* transforms and view transforms a context may carry when the chain starts
StartTransforms ==
    { identity,
      <<<<0, -1, 3>>, <<1, 0, -2>>>> }

StartViews ==
    { <<<<2, 0, 1>>, <<0, 1, 0>>>>,
      <<<<0, -1, 3>>, <<1, 0, -2>>>> }

\* matrices handed to append_transform / prepend_transform
ArgMats ==
    { <<<<1, 0, 5>>, <<0, 1, 0>>>>,
      <<<<2, 1, 0>>, <<0, 3, 1>>>> }

\* colors a context may carry when the chain starts
StartColors ==
    { <<r, g, b, a>> :
        r \in {Fin(1, 1, -1), Fin(-1, 1, 0), Inf(1)},
        g \in {One, NaN},
        b \in {Fin(1, 3, -2), Fin(-1, 0, 0)},
        a \in {One, Fin(1, 1, -1), NaN} }

\* factors handed to tint / shade
ArgFactors == {Zero, One, Fin(1, 1, -1), NaN}

\* source rectangles a context may carry when the chain starts
StartSourceRects ==
    { <<x, y, w, h>> :
        x \in {0, -5, I32_MAX},
        y \in {7, I32_MIN},
        w \in {16, -3, I32_MIN},
        h \in {2, I32_MAX} }

DefaultColor == <<One, One, One, One>>

DefaultSourceRect == <<0, 0, 1, 1>>

Call(op, args) == [op |-> op, args |-> args]

\* one step of the call chain: method `call` applied to ctx returned `res`
Step(call, res) ==
    /\ Len(trace) < MaxCalls
    /\ panic = <<>>
    /\ ctx' = res
    /\ trace' = Append(trace, [call |-> call, recv |-> ctx, res |-> res])
    /\ UNCHANGED <<start, panic, overflow_checks>>

\* method `call` applied to ctx panicked: the chain yields no value
Panic(call) ==
    /\ Len(trace) < MaxCalls
    /\ panic = <<>>
    /\ panic' = <<[call |-> call, recv |-> ctx]>>
    /\ UNCHANGED <<ctx, start, trace, overflow_checks>>

(***************************************************************************)
(* Calls on a context with a transform and a view transform                *)
(***************************************************************************)
DoAppendTransform ==
    \E m \in ArgMats :
        Step(Call("append_transform", <<m>>), append_transform(ctx, m))

DoPrependTransform ==
    \E m \in ArgMats :
        Step(Call("prepend_transform", <<m>>), prepend_transform(ctx, m))

DoTrans ==
    \E v \in {<<10, 0>>, <<0, 3>>} :
        Step(Call("trans", v), trans(ctx, v[1], v[2]))

DoRotDeg ==
    \E a \in {90} : Step(Call("rot_deg", <<a>>), rot_deg(ctx, a))

DoRotRad ==
    \E q \in {-1} : Step(Call("rot_rad", <<q>>), rot_rad(ctx, q))

DoOrient ==
    \E v \in {<<0, 0>>, <<-3, 0>>} :
        Step(Call("orient", v), orient(ctx, v[1], v[2]))

DoScale ==
    \E v \in {<<2, 3>>} : Step(Call("scale", v), scale(ctx, v[1], v[2]))

DoZoom ==
    \E s \in {2} : Step(Call("zoom", <<s>>), zoom(ctx, s))

DoFlipV == Step(Call("flip_v", <<>>), flip_v(ctx))

DoFlipH == Step(Call("flip_h", <<>>), flip_h(ctx))

DoFlipHV == Step(Call("flip_hv", <<>>), flip_hv(ctx))

DoShear ==
    \E v \in {<<2, -1>>} : Step(Call("shear", v), shear(ctx, v))

DoView == Step(Call("view", <<>>), view(ctx))

DoReset == Step(Call("reset", <<>>), reset(ctx))

DoStoreView == Step(Call("store_view", <<>>), store_view(ctx))

Init ==
    /\ start \in [ transform : StartTransforms,
                   view_transform : StartViews,
                   color : {DefaultColor},
                   source_rectangle : {DefaultSourceRect} ]
    /\ ctx = start
    /\ trace = <<>>
    /\ panic = <<>>
    /\ overflow_checks = FALSE

Next ==
    \/ DoAppendTransform
    \/ DoPrependTransform
    \/ DoTrans
    \/ DoRotDeg
    \/ DoRotRad
    \/ DoOrient
    \/ DoScale
    \/ DoZoom
    \/ DoFlipV
    \/ DoFlipH
    \/ DoFlipHV
    \/ DoShear
    \/ DoView
    \/ DoReset
    \/ DoStoreView

Spec == Init /\ [][Next]_vars

(***************************************************************************)
(* Calls on a context with a color                                         *)
(***************************************************************************)
DoMulRgba ==
    \E v \in {<<Fin(1, 1, 1), Zero, Fin(-1, 1, 0), Fin(1, 1, -1)>>,
              <<One, One, One, One>>} :
        Step(Call("mul_rgba", v), mul_rgba(ctx, v[1], v[2], v[3], v[4]))

DoTint == \E f \in ArgFactors : Step(Call("tint", <<f>>), tint(ctx, f))

DoShade == \E f \in ArgFactors : Step(Call("shade", <<f>>), shade(ctx, f))

ColorInit ==
    /\ start \in [ transform : {identity},
                   view_transform : {identity},
                   color : StartColors,
                   source_rectangle : {DefaultSourceRect} ]
    /\ ctx = start
    /\ trace = <<>>
    /\ panic = <<>>
    /\ overflow_checks = FALSE

ColorNext == DoMulRgba \/ DoTint \/ DoShade

ColorSpec == ColorInit /\ [][ColorNext]_vars

(***************************************************************************)
(* Calls on a context with a source rectangle                              *)
(***************************************************************************)
DoSrcRect ==
    \E v \in {<<1, 2, 30, 40>>} :
        Step(Call("src_rect", v), src_rect(ctx, v[1], v[2], v[3], v[4]))

DoSrcFlipH ==
    IF overflow_checks /\ src_flip_h_panics(ctx)
    THEN Panic(Call("src_flip_h", <<>>))
    ELSE Step(Call("src_flip_h", <<>>), src_flip_h(ctx))

DoSrcFlipV ==
    IF overflow_checks /\ src_flip_v_panics(ctx)
    THEN Panic(Call("src_flip_v", <<>>))
    ELSE Step(Call("src_flip_v", <<>>), src_flip_v(ctx))

DoSrcFlipHV ==
    IF overflow_checks /\ src_flip_hv_panics(ctx)
    THEN Panic(Call("src_flip_hv", <<>>))
    ELSE Step(Call("src_flip_hv", <<>>), src_flip_hv(ctx))

SourceInit ==
    /\ start \in [ transform : {identity},
                   view_transform : {identity},
                   color : {DefaultColor},
                   source_rectangle : StartSourceRects ]
    /\ ctx = start
    /\ trace = <<>>
    /\ panic = <<>>
    /\ overflow_checks \in BOOLEAN

SourceNext == DoSrcRect \/ DoSrcFlipH \/ DoSrcFlipV \/ DoSrcFlipHV

SourceSpec == SourceInit /\ [][SourceNext]_vars

(***************************************************************************)
(* Properties                                                              *)
(***************************************************************************)
Steps == 1..Len(trace)

Op(i) == trace[i].call.op

Args(i) == trace[i].call.args

Points == {<<0, 0>>, <<1, 0>>, <<0, 1>>, <<3, -2>>}

\* steps i..j are all append_transform calls
AppendRun(i, j) ==
    i <= j /\ \A k \in i..j : Op(k) = "append_transform"

\* mat0 * M_i * ... * M_j, multiplied in call order
RECURSIVE product(_, _, _)
product(mat0, i, j) ==
    IF j < i THEN mat0 ELSE multiply(product(mat0, i, j - 1), Args(j)[1])

\* M_i * (M_(i+1) * (... * (M_j * p))): the last call's matrix meets p first
RECURSIVE apply_chain(_, _, _)
apply_chain(i, j, p) ==
    IF j < i THEN p ELSE transform_pos(Args(i)[1], apply_chain(i + 1, j, p))

\* C1: a chain of append_transform(M_i)...append_transform(M_j) calls on a
\* context with transform mat0 yields the transform mat0 * M_i * ... * M_j
\* multiplied in call order, and that transform maps a point p to
\* mat0 * (M_i * (... * (M_j * p))): the last call's matrix is applied first.
C1_CompositionLaw ==
    \A i \in Steps : \A j \in Steps :
        AppendRun(i, j) =>
            LET mat0 == trace[i].recv.transform
                res  == trace[j].res.transform
            IN  /\ res = product(mat0, i, j)
                /\ \A p \in Points :
                       transform_pos(res, p)
                         = transform_pos(mat0, apply_chain(i, j, p))

\* C1 witness: a run of three append_transform calls whose first two
\* matrices do not commute, on a context whose transform is not the identity.
C1_Witness ==
    \E i \in Steps :
        /\ i + 2 \in Steps
        /\ AppendRun(i, i + 2)
        /\ trace[i].recv.transform # identity
        /\ multiply(Args(i)[1], Args(i + 1)[1])
             # multiply(Args(i + 1)[1], Args(i)[1])

\* C2: prepend_transform(op) on a context with transform mat returns a
\* context with transform op * mat, which maps a point p to op * (mat * p).
C2_PrependLeft ==
    \A i \in Steps :
        Op(i) = "prepend_transform" =>
            LET mat == trace[i].recv.transform
                op  == Args(i)[1]
                res == trace[i].res.transform
            IN  /\ res = multiply(op, mat)
                /\ \A p \in Points :
                       transform_pos(res, p)
                         = transform_pos(op, transform_pos(mat, p))

\* C2 witness: a prepend_transform call whose operand does not commute with
\* the receiver's transform, so the operand order shows.
C2_Witness ==
    \E i \in Steps :
        /\ Op(i) = "prepend_transform"
        /\ multiply(Args(i)[1], trace[i].recv.transform)
             # multiply(trace[i].recv.transform, Args(i)[1])

\* C4: c.store_view().view() has the transform of c.
C4_StoreViewRoundTrip ==
    \A i \in Steps :
        (i + 1 \in Steps /\ Op(i) = "store_view" /\ Op(i + 1) = "view") =>
            trace[i + 1].res.transform = trace[i].recv.transform

\* C4 witness: store_view().view() on a context whose transform differs from
\* the view transform it had stored before.
C4_Witness ==
    \E i \in Steps :
        /\ i + 1 \in Steps
        /\ Op(i) = "store_view"
        /\ Op(i + 1) = "view"
        /\ trace[i].recv.transform # trace[i].recv.view_transform

\* C5: reset() returns a context whose transform is the identity, whatever
\* the receiver's transform and view transform are.
C5_ResetIdentity ==
    \A i \in Steps : Op(i) = "reset" => trace[i].res.transform = identity

\* C5 witness: reset() on a context reached by earlier calls, whose transform
\* and view transform both differ from the identity.
C5_Witness ==
    \E i \in Steps :
        /\ i > 1
        /\ Op(i) = "reset"
        /\ trace[i].recv.transform # identity
        /\ trace[i].recv.view_transform # identity

\* C6: view() returns a context whose transform is the receiver's view
\* transform, not depending on the receiver's transform.
C6_ViewRecallsViewTransform ==
    \A i \in Steps :
        Op(i) = "view" =>
            trace[i].res.transform = trace[i].recv.view_transform

\* C6 witness: view() after a transform was accumulated, on a context whose
\* transform differs from its view transform.
C6_Witness ==
    \E i \in Steps :
        /\ i > 1
        /\ Op(i) = "view"
        /\ Op(i - 1) \notin {"view", "reset", "store_view"}
        /\ trace[i].recv.transform # trace[i].recv.view_transform

\* C7: store_view() returns a context whose view transform is the receiver's
\* transform and whose transform is the receiver's transform.
C7_StoreViewCopiesTransform ==
    \A i \in Steps :
        Op(i) = "store_view" =>
            /\ trace[i].res.view_transform = trace[i].recv.transform
            /\ trace[i].res.transform = trace[i].recv.transform

\* C7 witness: store_view() on a context whose transform differs from its
\* view transform.
C7_Witness ==
    \E i \in Steps :
        /\ Op(i) = "store_view"
        /\ trace[i].recv.transform # trace[i].recv.view_transform

\* the primitive matrix of the named transform call at step i
primitive(i) ==
    CASE Op(i) = "trans"   -> translate(<<Args(i)[1], Args(i)[2]>>)
      [] Op(i) = "rot_rad" -> rotate_radians(Args(i)[1])
      [] Op(i) = "rot_deg" -> rotate_radians(Args(i)[1] \div 90)
      [] Op(i) = "orient"  -> vecmath_orient(Args(i)[1], Args(i)[2])
      [] Op(i) = "scale"   -> vecmath_scale(Args(i)[1], Args(i)[2])
      [] Op(i) = "zoom"    -> vecmath_scale(Args(i)[1], Args(i)[1])
      [] Op(i) = "flip_v"  -> vecmath_scale(1, -1)
      [] Op(i) = "flip_h"  -> vecmath_scale(-1, 1)
      [] Op(i) = "flip_hv" -> vecmath_scale(-1, -1)
      [] Op(i) = "shear"   -> vecmath_shear(Args(i))

NamedTransforms ==
    { "trans", "rot_rad", "rot_deg", "orient", "scale", "zoom",
      "flip_v", "flip_h", "flip_hv", "shear" }

\* C9: each named transform call gives the same context as append_transform
\* of its primitive matrix; and from an identity transform,
\* trans(10, 0).rot_deg(90) maps the point (1, 0) to (10, 1).
C9_NamedOpsAppend ==
    /\ \A i \in Steps :
           Op(i) \in NamedTransforms =>
               trace[i].res = append_transform(trace[i].recv, primitive(i))
    /\ \A i \in Steps :
           ( /\ i + 1 \in Steps
             /\ trace[i].recv.transform = identity
             /\ trace[i].call = Call("trans", <<10, 0>>)
             /\ trace[i + 1].call = Call("rot_deg", <<90>>) ) =>
               transform_pos(trace[i + 1].res.transform, <<1, 0>>) = <<10, 1>>

\* C9 witness: the chain trans(10, 0).rot_deg(90) on an identity transform.
C9_Witness ==
    \E i \in Steps :
        /\ i + 1 \in Steps
        /\ trace[i].recv.transform = identity
        /\ trace[i].call = Call("trans", <<10, 0>>)
        /\ trace[i + 1].call = Call("rot_deg", <<90>>)

\* the transform that held at the most recent store_view() of the chain, or
\* the starting view transform if there was none
last_stored ==
    LET S == {i \in Steps : Op(i) = "store_view"}
    IN  IF S = {} THEN start.view_transform
        ELSE trace[CHOOSE i \in S : \A k \in S : k <= i].recv.transform

\* C10: no call other than store_view() changes the view transform; at every
\* point of a chain the view transform is the transform that held at the
\* most recent store_view(), or the starting one.
C10_OnlyStoreViewChangesView ==
    /\ \A i \in Steps :
           Op(i) # "store_view" =>
               trace[i].res.view_transform = trace[i].recv.view_transform
    /\ ctx.view_transform = last_stored

\* C10 witness: a chain with a store_view() that changed the view transform,
\* followed by a reset() or view() and by a call that changed the transform.
C10_Witness ==
    \E i \in Steps : \E j \in Steps :
        /\ Op(i) = "store_view"
        /\ trace[i].res.view_transform # trace[i].recv.view_transform
        /\ i < j
        /\ Op(j) \in {"view", "reset"}
        /\ j < Len(trace)
        /\ ctx.transform # trace[j].res.transform

(***************************************************************************)
(* Properties of the color calls (ColorSpec)                               *)
(***************************************************************************)
\* the colors a == b, channel by channel
color_eq(a, b) == \A n \in 1..4 : f_eq(a[n], b[n])

\* tint(f) and shade(f) multiply r, g, b by f, respectively 1 - f, and
\* alpha by 1
TintShadeProducts ==
    \A i \in Steps :
        LET c == trace[i].recv.color
            r == trace[i].res.color
            f == Args(i)[1]
            g == f_sub(One, f)
        IN  /\ Op(i) = "tint" =>
                   r = << f_mul(c[1], f), f_mul(c[2], f),
                          f_mul(c[3], f), f_mul(c[4], One) >>
            /\ Op(i) = "shade" =>
                   r = << f_mul(c[1], g), f_mul(c[2], g),
                          f_mul(c[3], g), f_mul(c[4], One) >>

IsTint(i, f) == Op(i) = "tint" /\ Args(i) = <<f>>

IsShade(i, f) == Op(i) = "shade" /\ Args(i) = <<f>>

Flips == {"src_flip_h", "src_flip_v", "src_flip_hv"}

\* two calls of the same flip in a row give back the receiver's rectangle
SameFlipTwiceRestores ==
    \A i \in Steps :
        (i + 1 \in Steps /\ Op(i) \in Flips /\ Op(i + 1) = Op(i)) =>
            trace[i + 1].res.source_rectangle
              = trace[i].recv.source_rectangle

\* C3: for every source rectangle s of i32, s.src_flip_h().src_flip_h() == s,
\* and the same for src_flip_v and src_flip_hv: each flip returns, and the
\* same flip applied twice gives s back.
C3_FlipsSelfInverse ==
    /\ (panic # <<>> => panic[1].call.op \notin Flips)
    /\ SameFlipTwiceRestores

\* C3, in a build without overflow checks: the same flip applied twice gives
\* the receiver's rectangle back, wrapped arithmetic included.
C3_FlipsSelfInverseWrapping ==
    overflow_checks = FALSE => (panic = <<>> /\ SameFlipTwiceRestores)

\* a flip applied twice to a rectangle on which x + w wrapped
C3_WrappingWitness ==
    \E i \in Steps :
        /\ i + 1 \in Steps
        /\ Op(i) = "src_flip_h"
        /\ Op(i + 1) = "src_flip_h"
        /\ src_flip_h_panics(trace[i].recv)

====
